---------------------------- MODULE Spec2Model ----------------------------
(***************************************************************************)
(* Blink-Detector: the segmented recorder (BlinkCameraController), the     *)
(* calibrated change detector (CalibratedFlickerDetector), the polling     *)
(* loop (IntegratedBlinkTest) and the serial link (DeviceSerialPort).      *)
(*                                                                         *)
(* One module holds the components; each has its own specification         *)
(* (Spec for the recorder, SpecDir for its output directory, SpecCal and   *)
(* SpecDet for the detector, SpecLink for the commands of the link,        *)
(* SpecOpen for its opening and closing, SpecFrame for its line framing,   *)
(* SpecFlicker for the single-channel FlickerDetector)                     *)
(* that moves its own variables and leaves the others at their initial     *)
(* values.                                                                 *)
(***************************************************************************)
EXTENDS Integers, Sequences, FiniteSets, TLC

VARIABLES
    \* ---- BlinkCameraController (src/serialport.js 740-1046)
    bufferProcess,      \* "none" (null) | "running" | "exited" (object kept, process gone)
    cleanupInterval,    \* TRUE while the setInterval timer is armed
    segmentsWithBlinks, \* the must-keep set
    currentSegment,     \* NoSegment or the target last announced by the encoder
    videoQueue,         \* sequence of [path, timestamp]
    files,              \* the .mp4 files of the output directory: <<k, n>> is
                        \* target n's file name under k 'blink_' prefixes
    now,                \* Date.now(), in ms since the recorder was constructed
    nextTarget,         \* the encoder's %03d counter: targets announced so far
    stopPc,             \* stopRecording(): "idle" | "awaitExit" | "flushWait" | "drain" | "done"
    killSent,           \* the 2000 ms killTimeout has fired
    \* ---- recorder history (observers, read by no action's guard)
    mustKeepAtStop,     \* segmentsWithBlinks when stopRecording() was called
    edgeSegs,           \* segments that were current when a rising edge was handled
    enqueuedAt,         \* per target: the time it was pushed on videoQueue, or -1
    recLast,            \* the recorder operation that ran last
    \* ---- CalibratedFlickerDetector (src/serialport.js 1054-1292); channel 1, 2
    \*      stand for the source's indices 0, 1
    savedCalibration,   \* process-wide: [whiteValue, blackValue, threshold], each a pair
    whiteValue,
    blackValue,
    threshold,
    lastValue,
    isOn,
    wasOn,
    blinkCount,         \* the detector's per-channel counter (logBlink)
    calPc,              \* calibrate(): "idle" | "white1" | "black1" | "white2" | "black2";
                        \* loadCalibration(): "verify"
    \* ---- IntegratedBlinkTest (src/integrated-test.js)
    testBlinkCount,     \* this.blinkCount of the polling loop
    reading,            \* the reading of the last successful ReadSensor of the loop
    changes,            \* what detectStateChange returned for it
    cycles,             \* polling cycles run so far
    detLast,            \* the detector / loop operation that ran last
    \* ---- DeviceSerialPort (src/serialport.js 10-366)
    port,               \* "null" | "open"
    isBusy,
    watchdogs,          \* armed 100 ms timers of sendCommand
    wire,               \* commands the device has received and not yet answered
    pc,                 \* per caller: "idle" | "busyWait" | "writing" | "listening"
    cmd,                \* per caller: the command of its call: "s", "b" or "none"
    busyWaitTime,       \* per caller: sendCommand's local busyWaitTime
    forced,             \* per caller: its sendCommand force-cleared the flag and is writing
    outcome,            \* per caller: how its last call ended
    linkLast,           \* the link event that ran last
    \* ---- DeviceSerialPort, opening and reopening (port is then also "unopened":
    \*      a SerialPort object that is not open)
    savedPortPath,      \* process-wide cached endpoint, NoPath for null
    portPath,           \* this.portPath, NoPath for null
    initPc,             \* initialize(): "idle" | "select" | "open"
    initResult,         \* how the last initialize() ended
    openAttempts,       \* openPort() calls made by the initialize() call in progress
    reconnectAttempts,
    portErrors,         \* 'error' events the port has emitted
    emitted,            \* 'error' events emitted on the link
    openLast,           \* the operation of this group that ran last
    enumerated,         \* what SerialPort.list() answered at the last check of the cache
    menu,               \* what SerialPort.list() answered for the last menu shown
    \* ---- IntegratedBlinkTest: startTest() and cleanup()
    isRunning,
    elapsed,            \* Date.now() - startTime has reached testDuration
    testPc,             \* startTest(): "new" | "top" (loop test) | "reading" (awaiting
                        \* ReadSensor) | "returned" | "threw"
    cleanupPc,          \* cleanup(): "none" | "recorder" | "link" | "done"
    recorderStopped,    \* cameraController.cleanup() has returned
    linkClosed,         \* flickerDetector.cleanup() has returned
    summaryReported,    \* 'Total blinks detected' has been logged
    recordCount,        \* rows appended to the CSV log
    markCount,          \* calls of cameraController.handleBlinkDetected()
    cycleRecords,       \* the rows <<channel, value>> appended in the last cycle
    lastFailure,        \* how the last failed read of the loop failed, or "none"
    cycleLogs,          \* log lines written by the catch block of the last cycle
    cycleReinits,       \* device.initialize() calls made by it
    \* ---- DeviceSerialPort.setupDataListener (src/serialport.js 181-197)
    buffer,             \* the listener's buffer: characters not yet split into lines
    received,           \* every byte the port has delivered, in order
    delivered,          \* the non-empty lines processResponse has taken, in order
    \* ---- BlinkCameraController.outputDir (src/serialport.js 755-784)
    dirExists,          \* the output directory exists
    dirEntries,         \* the names of its entries
    dirLast,            \* the operation of this group that ran last
    \* ---- FlickerDetector (src/unnamed/part_000), the single-channel detector
    fdLastValue,        \* this.lastValue, NullValue for null
    fdIsOn,             \* this.isOn
    fdResult,           \* what the last detectStateChange returned
    fdPrevious,         \* this.lastValue before the last detectStateChange
    fdCalls             \* detectStateChange calls so far

recVars == <<bufferProcess, cleanupInterval, segmentsWithBlinks, currentSegment,
             videoQueue, files, now, nextTarget, stopPc, killSent,
             mustKeepAtStop, edgeSegs, enqueuedAt, recLast>>

detVars == <<savedCalibration, whiteValue, blackValue, threshold, lastValue, isOn,
             wasOn, blinkCount, calPc, testBlinkCount, reading, changes, cycles, detLast>>

linkVars == <<port, isBusy, watchdogs, wire, pc, cmd, busyWaitTime, forced, outcome,
              linkLast>>

openVars == <<savedPortPath, portPath, initPc, initResult, openAttempts,
              reconnectAttempts, portErrors, emitted, openLast, enumerated, menu>>

testVars == <<isRunning, elapsed, testPc, cleanupPc, recorderStopped, linkClosed,
              summaryReported, recordCount, markCount, cycleRecords, lastFailure,
              cycleLogs, cycleReinits>>

frameVars == <<buffer, received, delivered>>

dirVars == <<dirExists, dirEntries, dirLast>>

flickerVars == <<fdLastValue, fdIsOn, fdResult, fdPrevious, fdCalls>>

vars == <<recVars, detVars, linkVars, openVars, testVars, frameVars, dirVars,
          flickerVars>>

notRec == <<detVars, linkVars, openVars, testVars, frameVars, dirVars, flickerVars>>
notDet == <<recVars, linkVars, openVars, frameVars, dirVars, flickerVars>>
notCal == <<recVars, linkVars, openVars, testVars, frameVars, dirVars, flickerVars>>
notLink == <<recVars, detVars, openVars, testVars, frameVars, dirVars, flickerVars>>
notOpen == <<recVars, detVars, testVars, frameVars, dirVars, flickerVars>>
notFrame == <<recVars, detVars, linkVars, openVars, testVars, dirVars, flickerVars>>
notDir == <<recVars, detVars, linkVars, openVars, testVars, frameVars, flickerVars>>
notFlicker == <<recVars, detVars, linkVars, openVars, testVars, frameVars, dirVars>>

-----------------------------------------------------------------------------
(* Bounds of the model *)

MaxSegments == 3
MaxTicks == 6
MaxCycles == 3
MaxCallers == 2
MaxWatchdogs == 1
MaxWire == 1
MaxOpenAttempts == 3
MaxErrors == 4
MaxLogBlinks == 1
MaxStream == 5
MaxChunk == 3
MaxArtifacts == 3
MaxReadings == 4

(* Program constants *)

segmentDuration == 30
retentionWindow == 2
NoSegment == 0
NullValue == -1
MAX_BUSY_WAIT == 1000
BusyWaitStep == 10
maxReconnectAttempts == 3
NoPath == 0

retentionPeriod == segmentDuration * 1000 * retentionWindow
cleanupPeriod == (segmentDuration * 1000) \div 2

Targets == 1..MaxSegments

-----------------------------------------------------------------------------
(* File names.  The encoder writes target n to segment_<n>_<run>.mp4; the   *)
(* final sweep renames a kept file by prepending 'blink_'.                  *)

RawName(n) == <<0, n>>
BlinkName(f) == <<f[1] + 1, f[2]>>

(* processVideos: shouldSave -- some must-keep path has this basename *)
ShouldSave(f, swb) == \E segment \in swb : RawName(segment) = f

(* processVideos: every .mp4 of the directory is renamed or deleted *)
ProcessVideos(fs, swb) == { BlinkName(f) : f \in { g \in fs : ShouldSave(g, swb) } }

(* handleBlinkDetected without the test of this.currentSegment *)
MarkCurrent_Unguarded(swb, cur) == swb \cup {cur}

(* handleBlinkDetected that loses the mark *)
MarkCurrent_Dropped(swb, cur) == swb

(* handleBlinkDetected that marks the segment closed last *)
MarkCurrent_Previous(swb, cur) == IF cur > 1 THEN swb \cup {cur - 1} ELSE swb

(* handleBlinkDetected: the must-keep set after the call *)
MarkCurrent(swb, cur) == IF cur # NoSegment THEN swb \cup {cur} ELSE swb

(* performCleanup that deletes without looking at the must-keep set *)
RECURSIVE PerformCleanup_IgnoreMarks(_, _, _, _)
PerformCleanup_IgnoreMarks(q, fs, swb, t) ==
    IF Len(q) > 0 /\ (t - q[1].timestamp) > retentionPeriod
    THEN PerformCleanup_IgnoreMarks(Tail(q), fs \ {RawName(Head(q).path)}, swb, t)
    ELSE [queue |-> q, files |-> fs]

(* performCleanup that tests the age with >= *)
RECURSIVE PerformCleanup_AtPeriod(_, _, _, _)
PerformCleanup_AtPeriod(q, fs, swb, t) ==
    IF Len(q) > 0 /\ (t - q[1].timestamp) >= retentionPeriod
    THEN PerformCleanup_AtPeriod(Tail(q),
                                 IF Head(q).path \notin swb
                                 THEN fs \ {RawName(Head(q).path)}
                                 ELSE fs,
                                 swb, t)
    ELSE [queue |-> q, files |-> fs]

(* performCleanup that stops at the first must-keep entry and leaves it queued *)
RECURSIVE PerformCleanup_StopAtKeep(_, _, _, _)
PerformCleanup_StopAtKeep(q, fs, swb, t) ==
    IF Len(q) > 0 /\ (t - q[1].timestamp) > retentionPeriod /\ q[1].path \notin swb
    THEN PerformCleanup_StopAtKeep(Tail(q), fs \ {RawName(Head(q).path)}, swb, t)
    ELSE [queue |-> q, files |-> fs]

(* performCleanup that puts an aged must-keep entry back at the tail *)
RECURSIVE PerformCleanup_Requeue(_, _, _, _)
PerformCleanup_Requeue(q, fs, swb, t) ==
    IF Len(q) > 0 /\ (t - q[1].timestamp) > retentionPeriod
    THEN LET segment == Head(q)
             r == PerformCleanup_Requeue(Tail(q),
                                         IF segment.path \notin swb
                                         THEN fs \ {RawName(segment.path)}
                                         ELSE fs,
                                         swb, t)
         IN  IF segment.path \in swb
             THEN [queue |-> Append(r.queue, segment), files |-> r.files]
             ELSE r
    ELSE [queue |-> q, files |-> fs]

(* performCleanup: the loop over the front of the queue, at time t *)
RECURSIVE PerformCleanup(_, _, _, _)
PerformCleanup(q, fs, swb, t) ==
    IF Len(q) > 0 /\ (t - q[1].timestamp) > retentionPeriod
    THEN LET segment == Head(q)
         IN  PerformCleanup(Tail(q),
                            IF segment.path \notin swb
                            THEN fs \ {RawName(segment.path)}
                            ELSE fs,
                            swb, t)
    ELSE [queue |-> q, files |-> fs]

-----------------------------------------------------------------------------
(* Recorder *)

InitRec ==
    /\ bufferProcess = "none"
    /\ cleanupInterval = FALSE
    /\ segmentsWithBlinks = {}
    /\ currentSegment = NoSegment
    /\ videoQueue = <<>>
    /\ files = {}
    /\ now = 0
    /\ nextTarget = 0
    /\ stopPc = "idle"
    /\ killSent = FALSE
    /\ mustKeepAtStop = {}
    /\ edgeSegs = {}
    /\ enqueuedAt = [n \in Targets |-> -1]
    /\ recLast = "new"

(* startContinuousRecording: spawn the encoder, arm the cleanup timer *)
StartContinuousRecording ==
    /\ stopPc = "idle"
    /\ bufferProcess = "none"
    /\ nextTarget = 0
    /\ bufferProcess' = "running"
    /\ cleanupInterval' = TRUE
    /\ recLast' = "start"
    /\ UNCHANGED <<segmentsWithBlinks, currentSegment, videoQueue, files, now,
                   nextTarget, stopPc, killSent, mustKeepAtStop, edgeSegs, enqueuedAt>>
    /\ UNCHANGED notRec

(* a stderr handler that takes the new target and forgets the previous one *)
SegmentOpen_NoPush ==
    /\ bufferProcess = "running"
    /\ nextTarget < MaxSegments
    /\ nextTarget' = nextTarget + 1
    /\ currentSegment' = nextTarget + 1
    /\ files' = files \cup {RawName(nextTarget + 1)}
    /\ recLast' = IF currentSegment # NoSegment THEN "openCleanup" ELSE "open"
    /\ UNCHANGED <<videoQueue, enqueuedAt>>
    /\ UNCHANGED <<bufferProcess, cleanupInterval, segmentsWithBlinks, now, stopPc,
                   killSent, mustKeepAtStop, edgeSegs>>
    /\ UNCHANGED notRec

(* The encoder opens its next target and says so on stderr; the handler    *)
(* closes the previous segment, pushes it and runs performCleanup.         *)
SegmentOpen ==
    /\ bufferProcess = "running"
    /\ nextTarget < MaxSegments
    /\ LET x == nextTarget + 1
           previousSegment == currentSegment
           created == files \cup {RawName(x)}
       IN  /\ nextTarget' = x
           /\ currentSegment' = x
           /\ IF previousSegment # NoSegment
              THEN LET pushed == Append(videoQueue,
                                        [path |-> previousSegment, timestamp |-> now])
                       r == PerformCleanup(pushed, created, segmentsWithBlinks, now)
                   IN  /\ videoQueue' = r.queue
                       /\ files' = r.files
                       /\ enqueuedAt' = [enqueuedAt EXCEPT ![previousSegment] = now]
                       /\ recLast' = "openCleanup"
              ELSE /\ videoQueue' = videoQueue
                   /\ files' = created
                   /\ enqueuedAt' = enqueuedAt
                   /\ recLast' = "open"
    /\ UNCHANGED <<bufferProcess, cleanupInterval, segmentsWithBlinks, now, stopPc,
                   killSent, mustKeepAtStop, edgeSegs>>
    /\ UNCHANGED notRec

(* handleBlinkDetected, called by the polling loop on a rising edge.  The   *)
(* final drain spins on the microtask queue, so no caller runs during it.   *)
HandleBlinkDetected ==
    /\ stopPc # "drain"
    /\ segmentsWithBlinks' = MarkCurrent(segmentsWithBlinks, currentSegment)
    /\ edgeSegs' = IF currentSegment # NoSegment
                   THEN edgeSegs \cup {currentSegment} ELSE edgeSegs
    /\ recLast' = "mark"
    /\ UNCHANGED <<bufferProcess, cleanupInterval, currentSegment, videoQueue, files,
                   now, nextTarget, stopPc, killSent, mustKeepAtStop, enqueuedAt>>
    /\ UNCHANGED notRec

(* The cleanupInterval timer fires *)
CleanupTick ==
    /\ cleanupInterval
    /\ stopPc # "drain"
    /\ LET r == PerformCleanup(videoQueue, files, segmentsWithBlinks, now)
       IN  /\ videoQueue' = r.queue
           /\ files' = r.files
    /\ recLast' = "tickCleanup"
    /\ UNCHANGED <<bufferProcess, cleanupInterval, segmentsWithBlinks, currentSegment,
                   now, nextTarget, stopPc, killSent, mustKeepAtStop, edgeSegs, enqueuedAt>>
    /\ UNCHANGED notRec

(* The encoder process exits: asked to quit, killed, or on its own.  An     *)
(* exit listener of stopRecording, when registered, resolves its wait.      *)
EncoderExit ==
    /\ bufferProcess = "running"
    /\ IF stopPc = "awaitExit"
       THEN /\ bufferProcess' = "none"
            /\ stopPc' = "flushWait"
       ELSE /\ bufferProcess' = "exited"
            /\ stopPc' = stopPc
    /\ recLast' = "exit"
    /\ UNCHANGED <<cleanupInterval, segmentsWithBlinks, currentSegment, videoQueue,
                   files, now, nextTarget, killSent, mustKeepAtStop, edgeSegs, enqueuedAt>>
    /\ UNCHANGED notRec

(* stopRecording is called *)
StopRecording ==
    /\ stopPc = "idle"
    /\ mustKeepAtStop' = segmentsWithBlinks
    /\ IF bufferProcess # "none"
       THEN /\ stopPc' = "awaitExit"
            /\ cleanupInterval' = cleanupInterval
       ELSE /\ cleanupInterval' = FALSE
            /\ stopPc' = IF Len(videoQueue) > 0 THEN "drain" ELSE "done"
    /\ recLast' = "stop"
    /\ UNCHANGED <<bufferProcess, segmentsWithBlinks, currentSegment, videoQueue, files,
                   now, nextTarget, killSent, edgeSegs, enqueuedAt>>
    /\ UNCHANGED notRec

(* stopRecording: the killTimeout fires while the exit is awaited *)
ForceKill ==
    /\ stopPc = "awaitExit"
    /\ ~killSent
    /\ killSent' = TRUE
    /\ recLast' = "kill"
    /\ UNCHANGED <<bufferProcess, cleanupInterval, segmentsWithBlinks, currentSegment,
                   videoQueue, files, now, nextTarget, stopPc, mustKeepAtStop, edgeSegs,
                   enqueuedAt>>
    /\ UNCHANGED notRec

(* stopRecording: after the flush wait, processVideos, clearInterval and    *)
(* the first test of the drain loop                                         *)
FinalSweep ==
    /\ stopPc = "flushWait"
    /\ files' = ProcessVideos(files, segmentsWithBlinks)
    /\ cleanupInterval' = FALSE
    /\ stopPc' = IF Len(videoQueue) > 0 THEN "drain" ELSE "done"
    /\ recLast' = "sweep"
    /\ UNCHANGED <<bufferProcess, segmentsWithBlinks, currentSegment, videoQueue, now,
                   nextTarget, killSent, mustKeepAtStop, edgeSegs, enqueuedAt>>
    /\ UNCHANGED notRec

(* stopRecording: one turn of while (videoQueue.length > 0) performCleanup() *)
Drain ==
    /\ stopPc = "drain"
    /\ LET r == PerformCleanup(videoQueue, files, segmentsWithBlinks, now)
       IN  /\ videoQueue' = r.queue
           /\ files' = r.files
           /\ stopPc' = IF Len(r.queue) > 0 THEN "drain" ELSE "done"
    /\ recLast' = "drainCleanup"
    /\ UNCHANGED <<bufferProcess, cleanupInterval, segmentsWithBlinks, currentSegment,
                   now, nextTarget, killSent, mustKeepAtStop, edgeSegs, enqueuedAt>>
    /\ UNCHANGED notRec

(* Time passes.  Past the model's horizon it passes only for a drain that   *)
(* still waits for its front entry to age.                                  *)
Tick ==
    /\ \/ now < MaxTicks * cleanupPeriod
       \/ /\ stopPc = "drain"
          /\ Len(videoQueue) > 0
          /\ (now - videoQueue[1].timestamp) <= retentionPeriod
    /\ now' = now + cleanupPeriod
    /\ recLast' = "time"
    /\ UNCHANGED <<bufferProcess, cleanupInterval, segmentsWithBlinks, currentSegment,
                   videoQueue, files, nextTarget, stopPc, killSent, mustKeepAtStop,
                   edgeSegs, enqueuedAt>>
    /\ UNCHANGED notRec

NextRec ==
    \/ StartContinuousRecording
    \/ SegmentOpen
    \/ HandleBlinkDetected
    \/ CleanupTick
    \/ EncoderExit
    \/ StopRecording
    \/ ForceKill
    \/ FinalSweep
    \/ Drain
    \/ Tick

-----------------------------------------------------------------------------
(* Change detector.  Magnitudes are in units of 0.05, and the reference     *)
(* levels are even, so that Math.abs(w - b) * 0.5 is the exact half.        *)

Channels == {1, 2}
CalLevels == {2, 18, 32}
Readings == {20, 28, 40}

Abs(x) == IF x < 0 THEN -x ELSE x

NullPair == <<NullValue, NullValue>>
NoCalibration ==
    [whiteValue |-> NullPair, blackValue |-> NullPair, threshold |-> NullPair]

(* calibrate: threshold = Math.abs(white - black) * 0.5 *)
HalfRange(w, b) == Abs(w - b) \div 2

hasSavedCalibration ==
    /\ savedCalibration.whiteValue[1] # NullValue
    /\ savedCalibration.blackValue[1] # NullValue
    /\ savedCalibration.whiteValue[2] # NullValue
    /\ savedCalibration.blackValue[2] # NullValue

(* a comparison with a null threshold compares with 0 *)
ThresholdNumber(thr) == IF thr = NullValue THEN 0 ELSE thr

(* detectStateChange with the signed difference *)
IsChange_Signed(cur, last, thr) == (cur - last) >= ThresholdNumber(thr)

(* detectStateChange: change >= this.threshold[i] *)
IsChange(cur, last, thr) == Abs(cur - last) >= ThresholdNumber(thr)

(* detectStateChange, one channel *)
DetectChannel(last, on, thr, cur) ==
    IF last = NullValue
    THEN [lastValue |-> cur, isOn |-> on, changed |-> FALSE]
    ELSE [lastValue |-> cur, isOn |-> IsChange(cur, last, thr), changed |-> TRUE]

(* the polling loop's test that counts every evaluated cycle that is on *)
RisingEdge_NoWasOn(changed, on, was) == changed /\ on

(* the polling loop's test for an event on channel i *)
RisingEdge(changed, on, was) == changed /\ on /\ ~was

InitDetector ==
    /\ savedCalibration = NoCalibration
    /\ whiteValue = NullPair
    /\ blackValue = NullPair
    /\ threshold = NullPair
    /\ lastValue = NullPair
    /\ isOn = <<FALSE, FALSE>>
    /\ wasOn = <<FALSE, FALSE>>
    /\ blinkCount = <<0, 0>>
    /\ calPc = "idle"
    /\ testBlinkCount = 0
    /\ reading = NullPair
    /\ changes = <<FALSE, FALSE>>
    /\ cycles = 0
    /\ detLast = "new"

loopVars == <<testBlinkCount, reading, changes, cycles>>
stateVars == <<lastValue, isOn, wasOn, blinkCount>>

(* new CalibratedFlickerDetector(): the saved calibration outlives instances *)
NewDetector ==
    /\ calPc = "idle"
    /\ whiteValue' = NullPair
    /\ blackValue' = NullPair
    /\ threshold' = NullPair
    /\ lastValue' = NullPair
    /\ isOn' = <<FALSE, FALSE>>
    /\ wasOn' = <<FALSE, FALSE>>
    /\ blinkCount' = <<0, 0>>
    /\ detLast' = "new"
    /\ UNCHANGED <<savedCalibration, calPc, loopVars>>
    /\ UNCHANGED notCal

(* calibrate() is entered *)
Calibrate ==
    /\ calPc = "idle"
    /\ calPc' = "white1"
    /\ detLast' = "calibrate"
    /\ UNCHANGED <<savedCalibration, whiteValue, blackValue, threshold, stateVars, loopVars>>
    /\ UNCHANGED notCal

(* recalibrate(): clearSavedCalibration(), then calibrate() *)
Recalibrate ==
    /\ calPc = "idle"
    /\ savedCalibration' = NoCalibration
    /\ calPc' = "white1"
    /\ detLast' = "recalibrate"
    /\ UNCHANGED <<whiteValue, blackValue, threshold, stateVars, loopVars>>
    /\ UNCHANGED notCal

(* a saveCalibration that saves the references without the thresholds *)
SaveCalibration_NoThreshold(w, b, t) ==
    [whiteValue |-> w, blackValue |-> b, threshold |-> NullPair]

(* saveCalibration(): copies of the detector's three arrays *)
SaveCalibration(w, b, t) ==
    [whiteValue |-> w, blackValue |-> b, threshold |-> t]

(* calibrate(): one calibrateScreen returns the mean v of its samples *)
CalibrateScreenOk ==
    /\ calPc \in {"white1", "black1", "white2", "black2"}
    /\ \E v \in CalLevels :
          \/ /\ calPc = "white1"
             /\ whiteValue' = [whiteValue EXCEPT ![1] = v]
             /\ calPc' = "black1"
             /\ UNCHANGED <<blackValue, threshold, savedCalibration>>
          \/ /\ calPc = "black1"
             /\ blackValue' = [blackValue EXCEPT ![1] = v]
             /\ threshold' = [threshold EXCEPT ![1] = HalfRange(whiteValue[1], v)]
             /\ calPc' = "white2"
             /\ UNCHANGED <<whiteValue, savedCalibration>>
          \/ /\ calPc = "white2"
             /\ whiteValue' = [whiteValue EXCEPT ![2] = v]
             /\ calPc' = "black2"
             /\ UNCHANGED <<blackValue, threshold, savedCalibration>>
          \/ /\ calPc = "black2"
             /\ blackValue' = [blackValue EXCEPT ![2] = v]
             /\ threshold' = [threshold EXCEPT ![2] = HalfRange(whiteValue[2], v)]
             /\ savedCalibration' = SaveCalibration(whiteValue, blackValue', threshold')
             /\ calPc' = "idle"
             /\ UNCHANGED whiteValue
    /\ detLast' = "calibrateScreen"
    /\ UNCHANGED <<stateVars, loopVars>>
    /\ UNCHANGED notCal

(* calibrate(): a ReadSensor of calibrateScreen fails and calibrate() throws *)
CalibrateScreenFail ==
    /\ calPc \in {"white1", "black1", "white2", "black2"}
    /\ calPc' = "idle"
    /\ detLast' = "calibrateFailed"
    /\ UNCHANGED <<savedCalibration, whiteValue, blackValue, threshold, stateVars, loopVars>>
    /\ UNCHANGED notCal

(* loadCalibration(): the copy; printing a null reference throws *)
LoadCalibration ==
    /\ calPc = "idle"
    /\ whiteValue' = savedCalibration.whiteValue
    /\ blackValue' = savedCalibration.blackValue
    /\ threshold' = savedCalibration.threshold
    /\ IF \E i \in Channels : \/ savedCalibration.whiteValue[i] = NullValue
                              \/ savedCalibration.blackValue[i] = NullValue
                              \/ savedCalibration.threshold[i] = NullValue
       THEN calPc' = "idle" /\ detLast' = "loadThrew"
       ELSE calPc' = "verify" /\ detLast' = "load"
    /\ UNCHANGED <<savedCalibration, stateVars, loopVars>>
    /\ UNCHANGED notCal

(* loadCalibration(): the verification read succeeds *)
VerifyOk ==
    /\ calPc = "verify"
    /\ calPc' = "idle"
    /\ detLast' = "verified"
    /\ UNCHANGED <<savedCalibration, whiteValue, blackValue, threshold, stateVars, loopVars>>
    /\ UNCHANGED notCal

(* a failed verification read that leaves the cache as it is *)
VerifyFail_KeepCache ==
    /\ calPc = "verify"
    /\ calPc' = "white1"
    /\ detLast' = "verifyFailed"
    /\ UNCHANGED <<savedCalibration, whiteValue, blackValue, threshold, stateVars, loopVars>>
    /\ UNCHANGED notCal

(* loadCalibration(): the verification read fails: clear the cache, calibrate() *)
VerifyFail ==
    /\ calPc = "verify"
    /\ savedCalibration' = NoCalibration
    /\ calPc' = "white1"
    /\ detLast' = "verifyFailed"
    /\ UNCHANGED <<whiteValue, blackValue, threshold, stateVars, loopVars>>
    /\ UNCHANGED notCal

(* initialize(), after device.initialize() *)
Initialize ==
    /\ calPc = "idle"
    /\ IF hasSavedCalibration
       THEN /\ whiteValue' = savedCalibration.whiteValue
            /\ blackValue' = savedCalibration.blackValue
            /\ threshold' = savedCalibration.threshold
            /\ calPc' = "verify"
            /\ detLast' = "initializeLoad"
       ELSE /\ calPc' = "white1"
            /\ detLast' = "initializeCalibrate"
            /\ UNCHANGED <<whiteValue, blackValue, threshold>>
    /\ UNCHANGED <<savedCalibration, stateVars, loopVars>>
    /\ UNCHANGED notCal

NextCal ==
    \/ NewDetector
    \/ Calibrate
    \/ Recalibrate
    \/ CalibrateScreenOk
    \/ CalibrateScreenFail
    \/ LoadCalibration
    \/ VerifyOk
    \/ VerifyFail
    \/ Initialize

-----------------------------------------------------------------------------
(* Polling loop of IntegratedBlinkTest.startTest, on a calibrated detector *)

DetCalibrations == {<<18, 2>>, <<32, 2>>}

InitCalibrated ==
    /\ \E c1, c2 \in DetCalibrations :
          /\ whiteValue = <<c1[1], c2[1]>>
          /\ blackValue = <<c1[2], c2[2]>>
          /\ threshold = <<HalfRange(c1[1], c1[2]), HalfRange(c2[1], c2[2])>>
    /\ savedCalibration =
          [whiteValue |-> whiteValue, blackValue |-> blackValue, threshold |-> threshold]
    /\ lastValue = NullPair
    /\ isOn = <<FALSE, FALSE>>
    /\ wasOn = <<FALSE, FALSE>>
    /\ blinkCount = <<0, 0>>
    /\ calPc = "idle"
    /\ testBlinkCount = 0
    /\ reading = NullPair
    /\ changes = <<FALSE, FALSE>>
    /\ cycles = 0
    /\ detLast = "new"

(* new IntegratedBlinkTest() *)
InitTest ==
    /\ isRunning = FALSE
    /\ elapsed = FALSE
    /\ testPc = "new"
    /\ cleanupPc = "none"
    /\ recorderStopped = FALSE
    /\ linkClosed = FALSE
    /\ summaryReported = FALSE
    /\ recordCount = 0
    /\ markCount = 0
    /\ cycleRecords = {}
    /\ lastFailure = "none"
    /\ cycleLogs = 0
    /\ cycleReinits = 0

(* initialize() has opened the log file and startTest() has started the     *)
(* recording and reached its loop                                           *)
InitRunning ==
    /\ isRunning = TRUE
    /\ elapsed = FALSE
    /\ testPc = "top"
    /\ cleanupPc = "none"
    /\ recorderStopped = FALSE
    /\ linkClosed = FALSE
    /\ summaryReported = FALSE
    /\ recordCount = 0
    /\ markCount = 0
    /\ cycleRecords = {}
    /\ lastFailure = "none"
    /\ cycleLogs = 0
    /\ cycleReinits = 0

lifeVars == <<isRunning, elapsed, cleanupPc, recorderStopped, linkClosed>>
cycleVars == <<recordCount, markCount, cycleRecords, lastFailure, cycleLogs, cycleReinits>>

(* how a ReadSensor of the loop can reject: 'Sensor read timeout',          *)
(* 'Invalid sensor data format', or a transport error (the port's error     *)
(* event, a failed write)                                                   *)
FailureKinds == {"timeout", "invalid", "transport"}

(* the catch block that takes every failure for a serial port error *)
IsSerialPortError_Always(kind, marked) == TRUE

(* the catch block: error.message.includes('Serial port error'); marked     *)
(* says whether the text of a transport error holds these words, which the  *)
(* messages of a timeout and of a malformed response do not                 *)
IsSerialPortError(kind, marked) == kind = "transport" /\ marked

(* a loop test that looks at the duration only *)
LoopCondition_DurationOnly(running, over) == ~over

(* startTest: this.isRunning && (Date.now() - startTime) < this.testDuration *)
LoopCondition(running, over) == running /\ ~over

(* startTest: the test of the while loop; the summary when it fails *)
LoopTest ==
    /\ testPc = "top"
    /\ IF LoopCondition(isRunning, elapsed)
       THEN /\ cycles < MaxCycles
            /\ testPc' = "reading"
            /\ detLast' = "read"
            /\ UNCHANGED summaryReported
       ELSE /\ testPc' = "returned"
            /\ summaryReported' = TRUE
            /\ detLast' = "summary"
    /\ UNCHANGED <<savedCalibration, whiteValue, blackValue, threshold, stateVars, calPc,
                   loopVars>>
    /\ UNCHANGED <<lifeVars, cycleVars>>
    /\ UNCHANGED notDet

(* one cycle whose ReadSensor resolves with (v1, v2); the recorder of this  *)
(* specification has no segment open, so handleBlinkDetected() is counted   *)
(* and changes nothing                                                      *)
PollCycle ==
    /\ calPc = "idle"
    /\ testPc = "reading"
    /\ \E v1, v2 \in Readings :
          LET d == <<DetectChannel(lastValue[1], isOn[1], threshold[1], v1),
                     DetectChannel(lastValue[2], isOn[2], threshold[2], v2)>>
              event == [i \in Channels |-> RisingEdge(d[i].changed, d[i].isOn, wasOn[i])]
              events == {i \in Channels : event[i]}
          IN  /\ reading' = <<v1, v2>>
              /\ lastValue' = <<d[1].lastValue, d[2].lastValue>>
              /\ isOn' = <<d[1].isOn, d[2].isOn>>
              /\ changes' = <<d[1].changed, d[2].changed>>
              /\ testBlinkCount' = testBlinkCount + Cardinality(events)
              /\ cycleRecords' = { <<i, IF i = 1 THEN v1 ELSE v2>> : i \in events }
              /\ recordCount' = recordCount + Cardinality(events)
              /\ markCount' = markCount + Cardinality(events)
              /\ wasOn' = [i \in Channels |-> IF d[i].changed THEN d[i].isOn ELSE wasOn[i]]
    /\ cycles' = cycles + 1
    /\ testPc' = "top"
    /\ lastFailure' = "none"
    /\ cycleLogs' = 0
    /\ cycleReinits' = 0
    /\ detLast' = "cycle"
    /\ UNCHANGED <<savedCalibration, whiteValue, blackValue, threshold, blinkCount, calPc>>
    /\ UNCHANGED <<lifeVars, summaryReported>>
    /\ UNCHANGED notDet

(* one cycle whose ReadSensor rejects: the catch block; ok says whether the *)
(* device.initialize() it may await resolves (a rejection leaves the loop   *)
(* through the outer catch, which rethrows)                                 *)
PollCycleFail ==
    /\ calPc = "idle"
    /\ testPc = "reading"
    /\ \E kind \in FailureKinds, marked, ok \in BOOLEAN :
          /\ lastFailure' = kind
          /\ IF IsSerialPortError(kind, marked)
             THEN /\ cycleLogs' = 1
                  /\ cycleReinits' = 1
                  /\ testPc' = IF ok THEN "top" ELSE "threw"
             ELSE /\ cycleLogs' = 0
                  /\ cycleReinits' = 0
                  /\ testPc' = "top"
    /\ cycles' = cycles + 1
    /\ cycleRecords' = {}
    /\ detLast' = "readFailed"
    /\ UNCHANGED <<savedCalibration, whiteValue, blackValue, threshold, stateVars, calPc,
                   testBlinkCount, reading, changes>>
    /\ UNCHANGED <<lifeVars, summaryReported, recordCount, markCount>>
    /\ UNCHANGED notDet

(* Date.now() - startTime reaches testDuration *)
DurationElapses ==
    /\ ~elapsed
    /\ elapsed' = TRUE
    /\ detLast' = "elapsed"
    /\ UNCHANGED <<savedCalibration, whiteValue, blackValue, threshold, stateVars, calPc,
                   loopVars>>
    /\ UNCHANGED <<isRunning, testPc, cleanupPc, recorderStopped, linkClosed,
                   summaryReported, cycleVars>>
    /\ UNCHANGED notDet

(* cleanup() is called: isRunning = false, cameraController.cleanup() begins *)
TestCleanup ==
    /\ cleanupPc = "none"
    /\ isRunning' = FALSE
    /\ cleanupPc' = "recorder"
    /\ detLast' = "cleanup"
    /\ UNCHANGED <<savedCalibration, whiteValue, blackValue, threshold, stateVars, calPc,
                   loopVars>>
    /\ UNCHANGED <<elapsed, testPc, recorderStopped, linkClosed, summaryReported, cycleVars>>
    /\ UNCHANGED notDet

(* cleanup(): cameraController.cleanup() returns, flickerDetector.cleanup() begins *)
CleanupRecorder ==
    /\ cleanupPc = "recorder"
    /\ recorderStopped' = TRUE
    /\ cleanupPc' = "link"
    /\ detLast' = "recorderStopped"
    /\ UNCHANGED <<savedCalibration, whiteValue, blackValue, threshold, stateVars, calPc,
                   loopVars>>
    /\ UNCHANGED <<isRunning, elapsed, testPc, linkClosed, summaryReported, cycleVars>>
    /\ UNCHANGED notDet

(* cleanup(): flickerDetector.cleanup() returns, and cleanup() with it *)
CleanupLink ==
    /\ cleanupPc = "link"
    /\ linkClosed' = TRUE
    /\ cleanupPc' = "done"
    /\ detLast' = "linkClosed"
    /\ UNCHANGED <<savedCalibration, whiteValue, blackValue, threshold, stateVars, calPc,
                   loopVars>>
    /\ UNCHANGED <<isRunning, elapsed, testPc, recorderStopped, summaryReported, cycleVars>>
    /\ UNCHANGED notDet

(* CalibratedFlickerDetector.logBlink(sensorIndex), which the loop never calls *)
LogBlink ==
    /\ \E i \in Channels :
          /\ blinkCount[i] < MaxLogBlinks
          /\ blinkCount' = [blinkCount EXCEPT ![i] = blinkCount[i] + 1]
    /\ detLast' = "logBlink"
    /\ UNCHANGED <<savedCalibration, whiteValue, blackValue, threshold, lastValue, isOn,
                   wasOn, calPc, loopVars>>
    /\ UNCHANGED notCal

NextDet ==
    \/ LoopTest
    \/ PollCycle
    \/ PollCycleFail
    \/ LogBlink
    \/ DurationElapses
    \/ TestCleanup
    \/ CleanupRecorder
    \/ CleanupLink

-----------------------------------------------------------------------------
(* Serial link.  Callers are the concurrent async calls of ReadSensor ('s') *)
(* and of an actuation command (MagnetOn, 'b') on one DeviceSerialPort.     *)
(* Timers are not ordered by a clock: a timer that is armed may fire at any *)
(* later step.                                                              *)

Callers == 1..MaxCallers
Commands == {"s", "b"}
Lines == {"reading", "other", "empty"}

InitLink ==
    /\ port = "null"
    /\ isBusy = FALSE
    /\ watchdogs = 0
    /\ wire = <<>>
    /\ pc = [c \in Callers |-> "idle"]
    /\ cmd = [c \in Callers |-> "none"]
    /\ busyWaitTime = [c \in Callers |-> 0]
    /\ forced = [c \in Callers |-> FALSE]
    /\ outcome = [c \in Callers |-> "none"]
    /\ linkLast = "new"

(* sendCommand's loop that tests the ceiling with > instead of >= *)
WaitOutcome_Late(busy, t) ==
    IF t > MAX_BUSY_WAIT THEN "force" ELSE IF busy THEN "wait" ELSE "go"

(* sendCommand: after one 10 ms wait, with busyWaitTime already increased   *)
WaitOutcome(busy, t) ==
    IF t >= MAX_BUSY_WAIT THEN "force" ELSE IF busy THEN "wait" ELSE "go"

(* sendCommand: setTimeout(..., 100) in the write callback *)
ArmWatchdog(n) == IF n < MaxWatchdogs THEN n + 1 ELSE n

(* sendCommand from this.isBusy = true on, for caller c with command k;    *)
(* f: the loop has just force-cleared the flag.  this.port.write throws on  *)
(* a null port; MagnetOn's catch clears the flag, ReadSensor's does not.    *)
AttemptWrite(c, k, f) ==
    /\ busyWaitTime' = [busyWaitTime EXCEPT ![c] = 0]
    /\ IF port = "null"
       THEN /\ isBusy' = (k = "s")
            /\ pc' = [pc EXCEPT ![c] = "idle"]
            /\ cmd' = [cmd EXCEPT ![c] = "none"]
            /\ forced' = [forced EXCEPT ![c] = FALSE]
            /\ outcome' = [outcome EXCEPT ![c] = "threw"]
       ELSE /\ isBusy' = TRUE
            /\ pc' = [pc EXCEPT ![c] = "writing"]
            /\ cmd' = [cmd EXCEPT ![c] = k]
            /\ forced' = [forced EXCEPT ![c] = f]
            /\ outcome' = [outcome EXCEPT ![c] = "none"]

(* initialize(), when it succeeds, on a link with no port *)
LinkInitialize ==
    /\ port = "null"
    /\ port' = "open"
    /\ UNCHANGED <<isBusy, watchdogs, wire, pc, cmd, busyWaitTime, forced, outcome>>
    /\ linkLast' = "initialize"
    /\ UNCHANGED notLink

(* close() of an open port *)
LinkClose ==
    /\ port = "open"
    /\ port' = "null"
    /\ isBusy' = FALSE
    /\ wire' = <<>>
    /\ UNCHANGED <<watchdogs, pc, cmd, busyWaitTime, forced, outcome>>
    /\ linkLast' = "close"
    /\ UNCHANGED notLink

(* ReadSensor() or MagnetOn() is called: sendCommand up to its first await *)
Call ==
    /\ \E c \in Callers, k \in Commands :
          /\ pc[c] = "idle"
          /\ IF isBusy
             THEN /\ pc' = [pc EXCEPT ![c] = "busyWait"]
                  /\ cmd' = [cmd EXCEPT ![c] = k]
                  /\ outcome' = [outcome EXCEPT ![c] = "none"]
                  /\ UNCHANGED <<isBusy, busyWaitTime, forced>>
             ELSE AttemptWrite(c, k, FALSE)
    /\ UNCHANGED <<port, watchdogs, wire>>
    /\ linkLast' = "call"
    /\ UNCHANGED notLink

(* sendCommand: a 10 ms wait of the busy loop ends *)
WaitStep ==
    /\ \E c \in Callers :
          /\ pc[c] = "busyWait"
          /\ LET t == busyWaitTime[c] + BusyWaitStep
                 o == WaitOutcome(isBusy, t)
             IN  IF o = "wait"
                 THEN /\ busyWaitTime' = [busyWaitTime EXCEPT ![c] = t]
                      /\ UNCHANGED <<isBusy, pc, cmd, forced, outcome>>
                 ELSE AttemptWrite(c, cmd[c], o = "force")
    /\ UNCHANGED <<port, watchdogs, wire>>
    /\ linkLast' = "wait"
    /\ UNCHANGED notLink

(* the write callback without error: arm the watchdog, resolve; ReadSensor  *)
(* registers its listeners, MagnetOn clears the flag and returns            *)
WriteCallbackOk ==
    /\ \E c \in Callers :
          /\ pc[c] = "writing"
          /\ IF cmd[c] = "s"
             THEN /\ pc' = [pc EXCEPT ![c] = "listening"]
                  /\ UNCHANGED <<isBusy, outcome, cmd>>
             ELSE /\ pc' = [pc EXCEPT ![c] = "idle"]
                  /\ isBusy' = FALSE
                  /\ outcome' = [outcome EXCEPT ![c] = "sent"]
                  /\ cmd' = [cmd EXCEPT ![c] = "none"]
          /\ forced' = [forced EXCEPT ![c] = FALSE]
          /\ wire' = IF port = "open" /\ Len(wire) < MaxWire
                     THEN Append(wire, cmd[c]) ELSE wire
    /\ watchdogs' = ArmWatchdog(watchdogs)
    /\ UNCHANGED <<port, busyWaitTime>>
    /\ linkLast' = "written"
    /\ UNCHANGED notLink

(* the write callback with an error *)
WriteCallbackError ==
    /\ \E c \in Callers :
          /\ pc[c] = "writing"
          /\ pc' = [pc EXCEPT ![c] = "idle"]
          /\ cmd' = [cmd EXCEPT ![c] = "none"]
          /\ forced' = [forced EXCEPT ![c] = FALSE]
          /\ outcome' = [outcome EXCEPT ![c] = "writeFailed"]
    /\ isBusy' = FALSE
    /\ UNCHANGED <<port, watchdogs, wire, busyWaitTime>>
    /\ linkLast' = "writeError"
    /\ UNCHANGED notLink

(* a watchdog timer fires *)
WatchdogFire ==
    /\ watchdogs > 0
    /\ watchdogs' = watchdogs - 1
    /\ isBusy' = FALSE
    /\ UNCHANGED <<port, wire, pc, cmd, busyWaitTime, forced, outcome>>
    /\ linkLast' = "watchdog"
    /\ UNCHANGED notLink

(* handleResponse that resolves with whatever line arrives *)
ResponseOutcome_NoCheck(line) == "value"

(* ReadSensor: handleResponse, the match against /^(\d+\.\d+),\s*(\d+\.\d+)$/ *)
ResponseOutcome(line) == IF line = "reading" THEN "value" ELSE "invalid"

(* ReadSensor's promise of caller c settles with outcome o when s holds *)
Settle(s, o) ==
    /\ pc' = [c \in Callers |-> IF s[c] THEN "idle" ELSE pc[c]]
    /\ cmd' = [c \in Callers |-> IF s[c] THEN "none" ELSE cmd[c]]
    /\ outcome' = [c \in Callers |-> IF s[c] THEN o ELSE outcome[c]]

(* a complete line arrives: processResponse, and every registered           *)
(* handleResponse of a ReadSensor                                           *)
DeviceRespond ==
    /\ port = "open"
    /\ wire # <<>>
    /\ wire' = Tail(wire)
    /\ \E line \in Lines :
          /\ linkLast' = line
          /\ IF line = "empty"
             THEN UNCHANGED <<isBusy, pc, cmd, outcome>>
             ELSE /\ isBusy' = FALSE
                  /\ Settle([c \in Callers |-> pc[c] = "listening"],
                            ResponseOutcome(line))
    /\ UNCHANGED <<port, watchdogs, busyWaitTime, forced>>
    /\ UNCHANGED notLink

(* the device never answers the oldest command *)
DeviceSilent ==
    /\ wire # <<>>
    /\ wire' = Tail(wire)
    /\ UNCHANGED <<port, isBusy, watchdogs, pc, cmd, busyWaitTime, forced, outcome>>
    /\ linkLast' = "silent"
    /\ UNCHANGED notLink

(* the open port emits 'error': the handler of setupDataListener emits it   *)
(* on the link, where handleError of every pending ReadSensor rejects with  *)
(* it; handlePortError, while it has reopens left, starts initialize(),     *)
(* whose close() drops the port and clears the flag                         *)
LinkError ==
    /\ port = "open"
    /\ Settle([c \in Callers |-> pc[c] = "listening"], "error")
    /\ \E reopen \in BOOLEAN :
          IF reopen
          THEN port' = "null" /\ isBusy' = FALSE /\ wire' = <<>>
          ELSE UNCHANGED <<port, isBusy, wire>>
    /\ linkLast' = "error"
    /\ UNCHANGED <<watchdogs, busyWaitTime, forced>>
    /\ UNCHANGED notLink

(* ReadSensor: the 5000 ms timeout fires *)
ReadTimeout ==
    /\ \E c \in Callers :
          /\ pc[c] = "listening"
          /\ Settle([d \in Callers |-> d = c], "timeout")
    /\ isBusy' = FALSE
    /\ UNCHANGED <<port, watchdogs, wire, busyWaitTime, forced>>
    /\ linkLast' = "timeout"
    /\ UNCHANGED notLink

NextLink ==
    \/ LinkInitialize
    \/ LinkClose
    \/ Call
    \/ WaitStep
    \/ WriteCallbackOk
    \/ WriteCallbackError
    \/ WatchdogFire
    \/ DeviceRespond
    \/ DeviceSilent
    \/ LinkError
    \/ ReadTimeout

-----------------------------------------------------------------------------
(* Serial link: opening, reopening and closing the port *)

Endpoints == {1, 2}

\* the link's state that initialize() and close() do not touch
linkRest == <<watchdogs, wire, pc, cmd, busyWaitTime, forced, outcome, linkLast>>

InitOpen ==
    /\ savedPortPath = NoPath
    /\ portPath = NoPath
    /\ initPc = "idle"
    /\ initResult = "none"
    /\ openAttempts = 0
    /\ reconnectAttempts = 0
    /\ portErrors = 0
    /\ emitted = 0
    /\ openLast = "new"
    /\ enumerated = {}
    /\ menu = {}

(* initialize() up to its first await of selectPort(): close() if the port  *)
(* is open                                                                  *)
EnterInitialize ==
    /\ initPc' = "select"
    /\ initResult' = "pending"
    /\ openAttempts' = 0
    /\ IF port = "open"
       THEN port' = "null" /\ portPath' = NoPath /\ isBusy' = FALSE
       ELSE UNCHANGED <<port, portPath, isBusy>>

(* a catch block that retries without clearing the cached endpoint *)
CatchInitialize_KeepCache(sv, err) ==
    IF sv = portPath
    THEN /\ savedPortPath' = sv
         /\ initPc' = "select"
         /\ UNCHANGED initResult
    ELSE /\ savedPortPath' = sv
         /\ initPc' = "idle"
         /\ initResult' = err

(* initialize(): the catch block, entered with cache sv and error err; the  *)
(* retry is initialize() called again on a port that is not open            *)
CatchInitialize(sv, err) ==
    IF sv = portPath
    THEN /\ savedPortPath' = NoPath
         /\ initPc' = "select"
         /\ UNCHANGED initResult
    ELSE /\ savedPortPath' = sv
         /\ initPc' = "idle"
         /\ initResult' = err

(* initialize() is called on a link that is not initializing *)
OpenInitialize ==
    /\ initPc = "idle"
    /\ EnterInitialize
    /\ openLast' = "initialize"
    /\ UNCHANGED <<savedPortPath, reconnectAttempts, portErrors, emitted, enumerated, menu>>
    /\ UNCHANGED linkRest
    /\ UNCHANGED notOpen

(* changePort(): forget the cached endpoint, close() if open, initialize() *)
ChangePort ==
    /\ initPc = "idle"
    /\ savedPortPath' = NoPath
    /\ EnterInitialize
    /\ openLast' = "changePort"
    /\ UNCHANGED <<reconnectAttempts, portErrors, emitted, enumerated, menu>>
    /\ UNCHANGED linkRest
    /\ UNCHANGED notOpen

(* initialize(): selectPort() returns or throws; listed is what             *)
(* SerialPort.list() answers at the check of the cached endpoint, ports     *)
(* what it answers for the menu                                             *)
SelectPort ==
    /\ initPc = "select"
    /\ \E listed, ports \in SUBSET Endpoints :
          IF savedPortPath # NoPath /\ savedPortPath \in listed
          THEN /\ portPath' = savedPortPath
               /\ port' = "unopened"
               /\ initPc' = "open"
               /\ openLast' = "selectedSaved"
               /\ enumerated' = listed
               /\ menu' = {}
               /\ UNCHANGED <<savedPortPath, initResult>>
          ELSE /\ enumerated' = IF savedPortPath # NoPath THEN listed ELSE {}
               /\ menu' = ports
               /\ IF ports = {}
                  THEN /\ CatchInitialize(NoPath, "noPorts")
                       /\ openLast' = "noPorts"
                       /\ UNCHANGED <<port, portPath>>
                  ELSE \E p \in ports :
                          /\ savedPortPath' = p
                          /\ portPath' = p
                          /\ port' = "unopened"
                          /\ initPc' = "open"
                          /\ openLast' = "selected"
                          /\ UNCHANGED initResult
    /\ UNCHANGED <<isBusy, openAttempts, reconnectAttempts, portErrors, emitted>>
    /\ UNCHANGED linkRest
    /\ UNCHANGED notOpen

(* initialize(): openPort() resolves, or rejects into the catch block *)
OpenPort ==
    /\ initPc = "open"
    /\ openAttempts < MaxOpenAttempts
    /\ openAttempts' = openAttempts + 1
    /\ \E ok \in BOOLEAN :
          IF ok
          THEN /\ port' = "open"
               /\ initPc' = "idle"
               /\ initResult' = "resolved"
               /\ openLast' = "opened"
               /\ UNCHANGED savedPortPath
          ELSE /\ CatchInitialize(savedPortPath, "openFailed")
               /\ openLast' = "openFailed"
               /\ UNCHANGED port
    /\ UNCHANGED <<portPath, isBusy, reconnectAttempts, portErrors, emitted, enumerated, menu>>
    /\ UNCHANGED linkRest
    /\ UNCHANGED notOpen

(* a handlePortError that reopens once more at the limit *)
MayReconnect_Inclusive(n) == n <= maxReconnectAttempts

(* handlePortError: this.reconnectAttempts < this.maxReconnectAttempts *)
MayReconnect(n) == n < maxReconnectAttempts

(* the open port emits 'error': handlePortError, then the handler that      *)
(* setupDataListener registered                                             *)
PortError ==
    /\ port = "open"
    /\ portErrors < MaxErrors
    /\ portErrors' = portErrors + 1
    /\ IF MayReconnect(reconnectAttempts)
       THEN /\ reconnectAttempts' = reconnectAttempts + 1
            /\ EnterInitialize
            /\ emitted' = emitted + 1
       ELSE /\ emitted' = emitted + 2
            /\ UNCHANGED <<reconnectAttempts, initPc, initResult, openAttempts,
                           port, portPath, isBusy>>
    /\ openLast' = "portError"
    /\ UNCHANGED <<savedPortPath, enumerated, menu>>
    /\ UNCHANGED linkRest
    /\ UNCHANGED notOpen

(* close() on a link that is not initializing *)
OpenClose ==
    /\ initPc = "idle"
    /\ IF port = "null"
       THEN UNCHANGED <<port, portPath, isBusy>>
       ELSE port' = "null" /\ portPath' = NoPath /\ isBusy' = FALSE
    /\ openLast' = "close"
    /\ UNCHANGED <<savedPortPath, initPc, initResult, openAttempts, reconnectAttempts,
                   portErrors, emitted, enumerated, menu>>
    /\ UNCHANGED linkRest
    /\ UNCHANGED notOpen

(* ReadSensor() or MagnetOn() on a link that has no port and is not busy *)
CallClosed ==
    /\ port = "null"
    /\ ~isBusy
    /\ \E c \in Callers, k \in Commands :
          /\ pc[c] = "idle"
          /\ AttemptWrite(c, k, FALSE)
    /\ linkLast' = "call"
    /\ openLast' = "call"
    /\ UNCHANGED <<port, watchdogs, wire>>
    /\ UNCHANGED <<savedPortPath, portPath, initPc, initResult, openAttempts,
                   reconnectAttempts, portErrors, emitted, enumerated, menu>>
    /\ UNCHANGED notOpen

NextOpen ==
    \/ OpenInitialize
    \/ ChangePort
    \/ SelectPort
    \/ OpenPort
    \/ PortError
    \/ OpenClose
    \/ CallClosed

-----------------------------------------------------------------------------
(* Line framing of the serial link: the 'data' listener of                  *)
(* setupDataListener.  A chunk is a sequence of bytes; "C3" and "A9" are    *)
(* the two bytes of one UTF-8 character, the other bytes are ASCII.  A      *)
(* string is a sequence of characters: "1", " ", "\n", "C3A9" for the       *)
(* two-byte character and "FFFD" for the replacement character.             *)

Bytes == {"1", " ", "\n", "C3", "A9"}

Whitespace == {" ", "\t", "\r", "\n"}

(* the chunks a 'data' event can carry *)
Chunks == UNION { [1..k -> Bytes] : k \in 1..MaxChunk }

RECURSIVE DataToString(_)
(* data.toString(): UTF-8 decoding of one chunk; a lead byte without its    *)
(* continuation byte, and a continuation byte without its lead byte,        *)
(* decode to the replacement character                                      *)
DataToString(data) ==
    IF data = <<>>
    THEN <<>>
    ELSE IF Head(data) = "C3" /\ Len(data) >= 2 /\ data[2] = "A9"
         THEN <<"C3A9">> \o DataToString(Tail(Tail(data)))
         ELSE IF Head(data) \in {"C3", "A9"}
              THEN <<"FFFD">> \o DataToString(Tail(data))
              ELSE <<Head(data)>> \o DataToString(Tail(data))

RECURSIVE Split(_)
(* s.split('\n'): the pieces between the newlines, at least one *)
Split(s) ==
    IF s = <<>>
    THEN << <<>> >>
    ELSE LET rest == Split(Tail(s))
         IN  IF Head(s) = "\n"
             THEN << <<>> >> \o rest
             ELSE << <<Head(s)>> \o rest[1] >> \o Tail(rest)

RECURSIVE TrimStart(_)
TrimStart(s) ==
    IF s # <<>> /\ Head(s) \in Whitespace THEN TrimStart(Tail(s)) ELSE s

RECURSIVE TrimEnd(_)
TrimEnd(s) ==
    IF s # <<>> /\ s[Len(s)] \in Whitespace
    THEN TrimEnd(SubSeq(s, 1, Len(s) - 1))
    ELSE s

(* message.trim() *)
Trim(s) == TrimEnd(TrimStart(s))

(* processResponse: 'if (!response) return' *)
Processed(response) == response # <<>>

(* a listener that keeps nothing of the last piece *)
Retained_Dropped(messages) == <<>>

(* buffer = messages.pop(): the piece after the last newline *)
Retained(messages) == messages[Len(messages)]

(* the listener on one chunk: the new buffer, and the lines that            *)
(* processResponse takes                                                    *)
DataHandler(buf, chunk) ==
    LET messages == Split(buf \o DataToString(chunk))
        trimmed == [k \in 1..(Len(messages) - 1) |-> Trim(messages[k])]
    IN  [buffer |-> Retained(messages),
         passed |-> SelectSeq(trimmed, Processed)]

InitFrame ==
    /\ buffer = <<>>
    /\ received = <<>>
    /\ delivered = <<>>

(* the port emits 'data' with one chunk *)
OnData ==
    /\ \E chunk \in Chunks :
          /\ Len(received) + Len(chunk) <= MaxStream
          /\ LET h == DataHandler(buffer, chunk)
             IN  /\ buffer' = h.buffer
                 /\ delivered' = delivered \o h.passed
          /\ received' = received \o chunk
    /\ UNCHANGED notFrame

NextFrame == OnData

-----------------------------------------------------------------------------
(* Output directory of the recorder: ensureOutputDirectory.  Names are as   *)
(* for the recorder's files (RawName, BlinkName); OtherName is an entry     *)
(* that does not end in '.mp4'.                                             *)

OtherName(n) == <<-1, n>>

DirNames ==
    UNION { {RawName(n), BlinkName(RawName(n)), OtherName(n)} : n \in 1..MaxArtifacts }

(* a test that takes only segment files for '.mp4' files *)
EndsWithMp4_RawOnly(f) == f[1] = 0

(* cleanOutputDirectory: file.endsWith('.mp4') *)
EndsWithMp4(f) == f[1] >= 0

(* cleanOutputDirectory: unlink every entry that ends in '.mp4' *)
CleanOutputDirectory(entries) == { f \in entries : ~EndsWithMp4(f) }

InitDir ==
    /\ dirExists = FALSE
    /\ dirEntries = {}
    /\ dirLast = "new"

(* ensureOutputDirectory(): mkdir if missing, then cleanOutputDirectory() *)
EnsureOutputDirectory ==
    /\ dirExists' = TRUE
    /\ dirEntries' = CleanOutputDirectory(dirEntries)
    /\ dirLast' = "ensured"
    /\ UNCHANGED notDir

(* a run of the recorder, or anything else, leaves an entry behind *)
EntryLeft ==
    /\ dirExists
    /\ \E f \in DirNames \ dirEntries : dirEntries' = dirEntries \cup {f}
    /\ dirLast' = "left"
    /\ UNCHANGED dirExists
    /\ UNCHANGED notDir

(* the directory is removed between two runs *)
DirectoryRemoved ==
    /\ dirExists
    /\ dirExists' = FALSE
    /\ dirEntries' = {}
    /\ dirLast' = "removed"
    /\ UNCHANGED notDir

NextDir ==
    \/ EnsureOutputDirectory
    \/ EntryLeft
    \/ DirectoryRemoved

-----------------------------------------------------------------------------
(* FlickerDetector: the single-channel detector with the fixed threshold.   *)
(* Magnitudes are in units of 0.05.                                         *)

(* this.threshold = 0.75 *)
FlickerThreshold == 15

FlickerValues == {5, 20, 34, 35, 40, 55}

(* a detectStateChange that compares the size of the change *)
FlickerDetect_Abs(last, on, currentValue) ==
    IF last = NullValue
    THEN [lastValue |-> currentValue, isOn |-> on, result |-> FALSE]
    ELSE [lastValue |-> currentValue,
          isOn |-> (Abs(currentValue - last) >= FlickerThreshold),
          result |-> TRUE]

(* detectStateChange(currentValue) on a detector with lastValue last and    *)
(* isOn on: the fields after the call and the value returned                *)
FlickerDetect(last, on, currentValue) ==
    IF last = NullValue
    THEN [lastValue |-> currentValue, isOn |-> on, result |-> FALSE]
    ELSE LET change == currentValue - last
         IN  [lastValue |-> currentValue,
              isOn |-> (change >= FlickerThreshold),
              result |-> TRUE]

InitFlicker ==
    /\ fdLastValue = NullValue
    /\ fdIsOn = FALSE
    /\ fdResult = FALSE
    /\ fdPrevious = NullValue
    /\ fdCalls = 0

(* detectStateChange is called with a reading *)
FlickerDetectStateChange ==
    /\ fdCalls < MaxReadings
    /\ \E currentValue \in FlickerValues :
          LET d == FlickerDetect(fdLastValue, fdIsOn, currentValue)
          IN  /\ fdLastValue' = d.lastValue
              /\ fdIsOn' = d.isOn
              /\ fdResult' = d.result
    /\ fdPrevious' = fdLastValue
    /\ fdCalls' = fdCalls + 1
    /\ UNCHANGED notFlicker

NextFlicker == FlickerDetectStateChange

-----------------------------------------------------------------------------
(* Specifications *)

(* every object as its constructor leaves it *)
Init ==
    /\ InitRec /\ InitDetector /\ InitLink /\ InitOpen /\ InitTest /\ InitFrame /\ InitDir
    /\ InitFlicker

(* as Init, with a detector that has been calibrated *)
InitPolling ==
    /\ InitRec /\ InitCalibrated /\ InitLink /\ InitOpen /\ InitRunning /\ InitFrame
    /\ InitDir /\ InitFlicker

Spec == Init /\ [][NextRec]_vars

SpecCal == Init /\ [][NextCal]_vars

SpecDet == InitPolling /\ [][NextDet]_vars

SpecLink == Init /\ [][NextLink]_vars

SpecOpen == Init /\ [][NextOpen]_vars

SpecFrame == Init /\ [][NextFrame]_vars

SpecDir == Init /\ [][NextDir]_vars

SpecFlicker == Init /\ [][NextFlicker]_vars

-----------------------------------------------------------------------------
(* Serial link, opening and closing: properties *)

(* C12: an 'error' event is emitted on the link only for port errors beyond *)
(* the first maxReconnectAttempts (3), which are answered by a reopen alone *)
C12_ReopensNotSurfaced ==
    /\ reconnectAttempts <= maxReconnectAttempts
    /\ emitted > 0 => portErrors > maxReconnectAttempts

(* C13: one initialize() call makes at most 2 open attempts: the first and  *)
(* one retry after the cache was cleared                                    *)
C13_AtMostOneRetry ==
    openAttempts <= 2

(* C14: when selectPort() fails on an empty enumeration, initialize() ends  *)
(* by rejecting with 'No serial ports found'                                *)
C14_NoPortsSurfaced ==
    [][ openLast' = "noPorts" => initPc' = "idle" /\ initResult' = "noPorts" ]_vars

(* C15: after close() the link has no port, no port path and is not busy,   *)
(* and a close() after a close() changes nothing                            *)
C15_CloseClearsAll ==
    [][ openLast' = "close" =>
          /\ port' = "null" /\ portPath' = NoPath /\ ~isBusy'
          /\ openLast = "close" =>
                port' = port /\ portPath' = portPath /\ isBusy' = isBusy
      ]_vars


(* C8: a call that finds the link busy waits in 10 ms steps and never past  *)
(* 1000 ms: it is never still waiting with busyWaitTime >= 1000, a step     *)
(* that takes it from MAX_BUSY_WAIT - 10 leaves the loop, and it leaves the *)
(* loop only into its write (this.port.write is called: the write is in     *)
(* flight, or it threw on a null port), never into a failure for being      *)
(* busy.                                                                    *)
C8_BoundedBusyWait ==
    [][ \A c \in Callers :
           pc[c] = "busyWait" =>
              /\ busyWaitTime[c] < MAX_BUSY_WAIT
              /\ busyWaitTime[c] % BusyWaitStep = 0
              /\ (busyWaitTime[c] + BusyWaitStep >= MAX_BUSY_WAIT
                     /\ busyWaitTime'[c] # busyWaitTime[c])
                 => pc'[c] # "busyWait"
              /\ pc'[c] # "busyWait" =>
                    \/ pc'[c] = "writing" /\ isBusy'
                    \/ port = "null" /\ outcome'[c] = "threw"
      ]_vars

(* a caller waited the full 1000 ms with the flag still set, force-cleared  *)
(* it and has its write in flight                                           *)
C8_Witness ==
    \E c \in Callers : pc[c] = "writing" /\ forced[c] /\ isBusy

(* C9: whenever the busy flag is set, something that clears it without a    *)
(* new call is pending: a write callback, an armed watchdog, a response on  *)
(* its way, a read timeout, or a call already waiting in the busy loop.     *)
C9_BusyAlwaysCleared ==
    isBusy =>
       \/ watchdogs > 0
       \/ wire # <<>>
       \/ \E c \in Callers : pc[c] \in {"busyWait", "writing", "listening"}

(* C10: no two ReadSensor calls await a response at the same time, and no   *)
(* read is written while another awaits its response.                       *)
C10_OneReadInFlight ==
    \A c, d \in Callers :
       (c # d /\ pc[c] = "listening")
       => ~(cmd[d] = "s" /\ pc[d] \in {"writing", "listening"})

(* the outcomes of a ReadSensor whose command was written *)
ReadOutcomes == {"value", "invalid", "error", "timeout"}

(* the steps of a caller's own call: entry, busy loop, write callbacks *)
OwnSteps == {"call", "wait", "written", "writeError"}

(* what holds of a pending read c whichever lines count as a response: it   *)
(* settles on a matching line with the reading, on an error event with the  *)
(* error, by its timer with 'Sensor read timeout', and in no other way; and *)
(* the outcome of a call that is not pending changes only by a new call     *)
SettlesOnce(c) ==
    /\ pc[c] = "listening" =>
          /\ linkLast' = "reading" => pc'[c] = "idle" /\ outcome'[c] = "value"
          /\ linkLast' = "error" => pc'[c] = "idle" /\ outcome'[c] = "error"
          /\ pc'[c] = "idle" =>
                /\ outcome'[c] \in ReadOutcomes
                /\ outcome'[c] = "timeout" <=> linkLast' = "timeout"
                /\ linkLast' \in {"reading", "other", "empty", "error", "timeout"}
          /\ pc'[c] \in {"idle", "listening"}
    /\ (pc[c] # "listening" /\ outcome'[c] # outcome[c]) => linkLast' \in OwnSteps

(* C11 as stated: a pending read settles exactly once, by what comes first: *)
(* a line that matches (reading), a line that does not match, the empty     *)
(* line included (invalid format), an error event, or its timeout.          *)
C11_FirstLineDecides ==
    [][ \A c \in Callers :
           /\ SettlesOnce(c)
           /\ (pc[c] = "listening" /\ linkLast' \in {"other", "empty"})
              => pc'[c] = "idle" /\ outcome'[c] = "invalid"
      ]_vars

(* C11 amended: as C11, with 'the first non-empty response line': an empty  *)
(* line is dropped by processResponse and the read stays pending.           *)
C11_FirstNonEmptyLineDecides ==
    [][ \A c \in Callers :
           /\ SettlesOnce(c)
           /\ (pc[c] = "listening" /\ linkLast' = "other")
              => pc'[c] = "idle" /\ outcome'[c] = "invalid"
           /\ (pc[c] = "listening" /\ linkLast' = "empty")
              => pc'[c] = "listening" /\ outcome'[c] = outcome[c]
      ]_vars

(* one read has settled by a non-matching line, then an empty line arrived  *)
(* while the other read was pending, and it is still pending                *)
C11_Witness ==
    \E c, d \in Callers :
       /\ pc[c] = "listening"
       /\ linkLast = "empty"
       /\ pc[d] = "idle"
       /\ outcome[d] = "invalid"

(* C39: reconnectAttempts stays within 0..maxReconnectAttempts and never    *)
(* decreases; it grows by one exactly when a port error starts a reopen,    *)
(* so a successful open and close() leave it alone and a port error at the  *)
(* limit starts no reopen.                                                  *)
C39_ReconnectBudget ==
    [][ /\ reconnectAttempts' >= reconnectAttempts
        /\ reconnectAttempts' <= maxReconnectAttempts
        /\ reconnectAttempts' # reconnectAttempts =>
              /\ openLast' = "portError"
              /\ reconnectAttempts' = reconnectAttempts + 1
              /\ initPc' = "select"
        /\ (openLast' = "portError" /\ reconnectAttempts' = reconnectAttempts) =>
              /\ reconnectAttempts = maxReconnectAttempts
              /\ initPc' = initPc
              /\ port' = port
      ]_vars

(* a fourth port error on a link that was reopened three times: the port    *)
(* stays as it is and no reopen starts                                      *)
C39_Witness ==
    /\ openLast = "portError"
    /\ portErrors = 4
    /\ reconnectAttempts = maxReconnectAttempts
    /\ port = "open"
    /\ initPc = "idle"

(* C37: a response line settles only the ReadSensor whose 's' command it    *)
(* answers: a line that answers an actuation command leaves every pending   *)
(* read pending.                                                            *)
C37_LineSettlesOwnRead ==
    [][ (wire # <<>> /\ Head(wire) # "s" /\ linkLast' \in {"reading", "other"})
        => \A c \in Callers :
              pc[c] = "listening" =>
                 (pc'[c] = "listening" /\ outcome'[c] = outcome[c])
      ]_vars

-----------------------------------------------------------------------------
(* Detector and polling loop: properties *)

(* C5: in every polling cycle, per channel: a first reading (no previous    *)
(* value) is stored, reported as not evaluated and leaves isOn alone; a     *)
(* later reading is stored, reported as evaluated and sets isOn to          *)
(* |current - previous| >= threshold.                                       *)
C5_DetectStateChange ==
    [][ detLast' = "cycle" =>
          \A i \in Channels :
             /\ lastValue'[i] = reading'[i]
             /\ IF lastValue[i] = NullValue
                THEN changes'[i] = FALSE /\ isOn'[i] = isOn[i]
                ELSE /\ changes'[i] = TRUE
                     /\ isOn'[i] = (Abs(reading'[i] - lastValue[i]) >= threshold[i])
      ]_vars

(* a later reading moved channel 1 by at least its threshold (from 28 or    *)
(* 40 down to 20, threshold 8) and channel 2 by less than its own (15)      *)
C5_Witness ==
    /\ detLast = "cycle"
    /\ cycles >= 2
    /\ changes = <<TRUE, TRUE>>
    /\ isOn = <<TRUE, FALSE>>
    /\ reading = <<20, 28>>
    /\ threshold = <<8, 15>>

(* the channels that go false -> true in the cycle that is taken *)
RisingIn(i) == changes'[i] /\ isOn'[i] /\ ~wasOn[i]

(* C6: in every polling cycle the per-channel event counter of channel i    *)
(* grows by 1 if channel i goes false -> true and by 0 otherwise.           *)
C6_PerChannelCounter ==
    [][ detLast' = "cycle" =>
          \A i \in Channels :
             blinkCount'[i] = blinkCount[i] + (IF RisingIn(i) THEN 1 ELSE 0)
      ]_vars

(* the correlator has left Running and nothing of it is in progress:        *)
(* cleanup() has returned, or startTest() has returned with no cleanup()    *)
(* under way                                                                *)
Idle ==
    \/ cleanupPc = "done"
    \/ testPc = "returned" /\ cleanupPc = "none"

(* C22: when the correlator is idle after running, the recorder has been    *)
(* stopped, the link has been closed and the summary has been reported.     *)
C22_IdleAfterTeardown ==
    Idle => recorderStopped /\ linkClosed /\ summaryReported

(* C23: a cycle increments the counter, appends a log record <<channel,     *)
(* value of that channel>> and calls handleBlinkDetected() once for each    *)
(* channel that goes false -> true in it, and for no other; no other step   *)
(* does any of the three; so records = marks = counted events throughout.   *)
C23_OneOfEachPerEdge ==
    [][ /\ detLast' = "cycle" =>
             LET rising == {i \in Channels : RisingIn(i)}
             IN  /\ testBlinkCount' = testBlinkCount + Cardinality(rising)
                 /\ recordCount' = recordCount + Cardinality(rising)
                 /\ markCount' = markCount + Cardinality(rising)
                 /\ cycleRecords' = { <<i, reading'[i]>> : i \in rising }
        /\ detLast' # "cycle" =>
             UNCHANGED <<testBlinkCount, recordCount, markCount>>
        /\ recordCount' = markCount'
        /\ markCount' = testBlinkCount'
      ]_vars

(* a cycle in which both channels went false -> true: two records, two      *)
(* marks, two increments                                                    *)
C23_Witness ==
    /\ detLast = "cycle"
    /\ Cardinality(cycleRecords) = 2
    /\ isOn = <<TRUE, TRUE>>
    /\ recordCount = 2
    /\ markCount = 2
    /\ testBlinkCount = 2

(* C24: a read that fails by timeout or by a malformed response leaves the  *)
(* loop polling and is logged as an error of its own.                       *)
C24_FailuresLoggedLoopAlive ==
    [][ (detLast' = "readFailed" /\ lastFailure' \in {"timeout", "invalid"})
        => testPc' = "top" /\ cycleLogs' = 1
      ]_vars

(* C25: a read that fails by a transport error is answered by exactly one   *)
(* device.initialize() and the loop goes on polling; a timeout or a         *)
(* malformed response by none.                                              *)
C25_OneReinitPerTransportError ==
    [][ detLast' = "readFailed" =>
          /\ testPc' = "top"
          /\ cycleReinits' = IF lastFailure' = "transport" THEN 1 ELSE 0
      ]_vars

(* C27: initialize() takes the cached calibration iff white and black are   *)
(* cached for both channels, and then makes one verification read, which    *)
(* either ends initialize() with the cache kept or clears the cache and     *)
(* starts calibrate(); with a reference missing it starts calibrate() at    *)
(* once, with no verification read.                                         *)
C27_CacheReuse ==
    [][ /\ detLast' \in {"initializeLoad", "initializeCalibrate"} =>
             /\ (detLast' = "initializeLoad") <=>
                    (\A i \in Channels :
                        /\ savedCalibration.whiteValue[i] # NullValue
                        /\ savedCalibration.blackValue[i] # NullValue)
             /\ detLast' = "initializeLoad" =>
                    /\ calPc' = "verify"
                    /\ whiteValue' = savedCalibration.whiteValue
                    /\ blackValue' = savedCalibration.blackValue
                    /\ threshold' = savedCalibration.threshold
             /\ detLast' = "initializeCalibrate" => calPc' = "white1"
             /\ savedCalibration' = savedCalibration
        /\ calPc = "verify" =>
             \/ /\ detLast' = "verified"
                /\ calPc' = "idle"
                /\ savedCalibration' = savedCalibration
             \/ /\ detLast' = "verifyFailed"
                /\ calPc' = "white1"
                /\ savedCalibration' = NoCalibration
      ]_vars

(* the verification read of a reused calibration has failed: the cache is   *)
(* cleared and calibrate() starts, the detector still holding the values    *)
C27_Witness ==
    /\ detLast = "verifyFailed"
    /\ calPc = "white1"
    /\ savedCalibration = NoCalibration
    /\ whiteValue # NullPair
    /\ threshold # NullPair

(* C28: selectPort() reuses the cached endpoint, with no menu, iff the       *)
(* enumeration lists it; a cached endpoint that is not listed is cleared,   *)
(* and so it is by changePort() and by a failed open; the cache is set      *)
(* only by a selection from the menu of the current enumeration.            *)
C28_CachedEndpoint ==
    [][ /\ openLast' \in {"selectedSaved", "noPorts", "selected"} =>
             /\ (openLast' = "selectedSaved") <=>
                    (savedPortPath # NoPath /\ savedPortPath \in enumerated')
             /\ openLast' = "selectedSaved" =>
                    /\ savedPortPath' = savedPortPath
                    /\ portPath' = savedPortPath
                    /\ menu' = {}
             /\ (savedPortPath # NoPath /\ savedPortPath \notin enumerated') =>
                    \/ savedPortPath' = NoPath
                    \/ openLast' = "selected" /\ savedPortPath' \in menu'
        /\ openLast' \in {"changePort", "openFailed"} => savedPortPath' = NoPath
        /\ (savedPortPath' # savedPortPath /\ savedPortPath' # NoPath) =>
             openLast' = "selected"
        /\ openLast' = "selected" => savedPortPath' \in menu'
      ]_vars

(* the cached endpoint was listed and reused with no menu shown, and        *)
(* opening it has failed: the cache is cleared                              *)
C28_Witness ==
    /\ openLast = "openFailed"
    /\ savedPortPath = NoPath
    /\ portPath \in enumerated
    /\ menu = {}
    /\ reconnectAttempts > 0

(* C29: however the bytes received so far were cut into chunks, the lines  *)
(* processResponse has taken and the partial line held back are those of    *)
(* the same bytes arriving in one chunk.                                    *)
C29_ChunkingInvariant ==
    LET whole == DataHandler(<<>>, received)
    IN  /\ delivered = whole.passed
        /\ buffer = whole.buffer

(* C30: when ensureOutputDirectory() has run, the directory exists and      *)
(* holds no segment file and no kept ('blink_') file of an earlier run,     *)
(* and running it again would change nothing.                               *)
C30_CleanOutputDirectory ==
    dirLast = "ensured" =>
       /\ dirExists
       /\ \A n \in 1..MaxArtifacts :
             /\ RawName(n) \notin dirEntries
             /\ BlinkName(RawName(n)) \notin dirEntries
       /\ CleanOutputDirectory(dirEntries) = dirEntries

(* a directory that held a segment file, a kept file and another file has   *)
(* been cleaned: the other file is all that is left                         *)
C30_Witness ==
    /\ dirLast = "ensured"
    /\ dirExists
    /\ dirEntries = {OtherName(1)}

(* C32: once cleanup() has set isRunning to false the loop starts no read:  *)
(* a read can only be the one that was outstanding, it ends in the loop     *)
(* test, and the loop test ends startTest().                                *)
C32_NoReadAfterStop ==
    [][ ~isRunning =>
          /\ testPc' = "reading" => testPc = "reading"
          /\ detLast' \in {"cycle", "readFailed"} =>
                (testPc = "reading" /\ testPc' \in {"top", "threw"})
          /\ (testPc = "top" /\ testPc' # "top") =>
                (testPc' = "returned" /\ summaryReported')
          /\ testPc \in {"returned", "threw"} => testPc' = testPc
      ]_vars

(* the read that was outstanding when cleanup() was called has completed    *)
(* and the loop has then returned                                           *)
C32_Witness ==
    /\ ~isRunning
    /\ cleanupPc = "recorder"
    /\ testPc = "returned"
    /\ summaryReported
    /\ cycles = 2
    /\ lastFailure = "timeout"

(* the cache c holds nothing, or both references and the threshold derived  *)
(* from them for both channels                                              *)
AllOrNothing(c) ==
    \/ c = NoCalibration
    \/ \A i \in Channels :
          /\ c.whiteValue[i] # NullValue
          /\ c.blackValue[i] # NullValue
          /\ c.threshold[i] # NullValue
          /\ 2 * c.threshold[i] = Abs(c.whiteValue[i] - c.blackValue[i])

(* C38: the cached calibration is all-or-nothing before and after every     *)
(* step, and while calibrate() runs it changes only when the last           *)
(* calibrateScreen has succeeded: a calibrate() that fails leaves it as it  *)
(* was.                                                                     *)
C38_CacheAllOrNothing ==
    [][ /\ AllOrNothing(savedCalibration)
        /\ AllOrNothing(savedCalibration')
        /\ (/\ calPc \in {"white1", "black1", "white2", "black2"}
            /\ ~(calPc = "black2" /\ detLast' = "calibrateScreen"))
           => savedCalibration' = savedCalibration
        /\ detLast' = "calibrateFailed" => savedCalibration' = savedCalibration
      ]_vars

(* a calibrate() on a detector with a cached calibration has failed after   *)
(* it changed the detector's own references: the cache is as before         *)
C38_Witness ==
    /\ detLast = "calibrateFailed"
    /\ savedCalibration # NoCalibration
    /\ whiteValue # savedCalibration.whiteValue
    /\ threshold = savedCalibration.threshold

(* C40: the first detectStateChange of a FlickerDetector stores the reading *)
(* and returns false with isOn as it was; every later one stores the        *)
(* reading, returns true and leaves isOn true iff the reading exceeds the   *)
(* previous one by at least 0.75, so never after a decrease.                *)
C40_SignedFixedThreshold ==
    [][ fdCalls' = fdCalls + 1 =>
          IF fdLastValue = NullValue
          THEN /\ ~fdResult'
               /\ fdLastValue' # NullValue
               /\ fdIsOn' = fdIsOn
          ELSE /\ fdResult'
               /\ fdLastValue' # NullValue
               /\ fdIsOn' <=> (fdLastValue' - fdLastValue >= 15)
               /\ fdLastValue' < fdLastValue => ~fdIsOn'
      ]_vars

(* after a rise of 0.75 that set isOn, a fall of 1.0 has cleared it *)
C40_Witness ==
    /\ fdCalls = 3
    /\ fdPrevious = 40
    /\ fdLastValue = 20
    /\ fdResult
    /\ ~fdIsOn

(* C7: whenever no calibration is in progress, every channel whose          *)
(* threshold is set has threshold = |white - black| * 0.5 >= 0 for its      *)
(* current references.                                                      *)
C7_ThresholdDerived ==
    calPc = "idle" =>
       \A i \in Channels :
          threshold[i] # NullValue =>
             /\ whiteValue[i] # NullValue
             /\ blackValue[i] # NullValue
             /\ threshold[i] = HalfRange(whiteValue[i], blackValue[i])
             /\ threshold[i] >= 0

-----------------------------------------------------------------------------
(* Recorder: properties *)

QueuedPaths == { videoQueue[i].path : i \in 1..Len(videoQueue) }
CleanupRan == recLast \in {"openCleanup", "tickCleanup", "drainCleanup"}
Closed(s) == enqueuedAt[s] >= 0
Evaluated(s) == Closed(s) /\ s \notin QueuedPaths
KeptName(s) == BlinkName(RawName(s))

(* C1: once stopRecording() has returned, every segment that was in the     *)
(* must-keep set when it was called has its file under the 'blink_' name:   *)
(* no cleanup, sweep or drain has deleted it.                               *)
C1_MustKeepSurvivesStop ==
    stopPc = "done" => \A s \in mustKeepAtStop : KeptName(s) \in files

(* a marked segment went through a cleanup evaluation, an unmarked one was  *)
(* deleted, and the stop has returned                                       *)
C1_Witness ==
    /\ stopPc = "done"
    /\ \E s \in mustKeepAtStop : Closed(s) /\ KeptName(s) \in files
    /\ \E u \in Targets : Closed(u) /\ u \notin segmentsWithBlinks

(* C2: right after a performCleanup evaluation no closed, never-marked      *)
(* segment older than the retention period has a file; and after the final  *)
(* sweep the only files left are the renamed files of must-keep segments.   *)
C2_UnmarkedAgedGone ==
    /\ CleanupRan =>
         \A s \in Targets :
            (Closed(s) /\ s \notin segmentsWithBlinks
                       /\ (now - enqueuedAt[s]) > retentionPeriod)
            => RawName(s) \notin files
    /\ stopPc \in {"drain", "done"} =>
         \A f \in files : f[1] > 0 /\ f[2] \in segmentsWithBlinks

(* a timer tick has just deleted an aged unmarked segment that queued       *)
(* behind a must-keep one                                                   *)
C2_Witness ==
    /\ recLast = "tickCleanup"
    /\ \E s, k \in Targets :
          /\ Closed(s) /\ Closed(k) /\ k < s
          /\ k \in segmentsWithBlinks
          /\ s \notin segmentsWithBlinks
          /\ (now - enqueuedAt[s]) > retentionPeriod
          /\ RawName(s) \notin files
          /\ RawName(k) \in files

(* C3: no step deletes the file of the segment recorded as currentSegment   *)
(* (a rename to the 'blink_' name keeps it).                                *)
C3_CurrentNeverDeleted ==
    [][ (currentSegment # NoSegment /\ RawName(currentSegment) \in files)
        => (RawName(currentSegment) \in files' \/ KeptName(currentSegment) \in files')
      ]_vars

(* C4: every segment that was current when a rising edge was handled is in  *)
(* the must-keep set in every state, so in every cleanup evaluation; and    *)
(* once evaluated by a cleanup its file is still there.                     *)
C4_MarksVisibleToCleanup ==
    \A s \in edgeSegs :
        /\ s \in segmentsWithBlinks
        /\ Evaluated(s) => (RawName(s) \in files \/ KeptName(s) \in files)

(* a timer tick has just evaluated an aged segment that had a rising edge   *)
C4_Witness ==
    /\ recLast = "tickCleanup"
    /\ \E s \in edgeSegs :
          /\ Evaluated(s)
          /\ (now - enqueuedAt[s]) > retentionPeriod
          /\ RawName(s) \in files

(* the queue a performCleanup evaluation of this step starts from: the      *)
(* stderr handler pushes the segment that was current before it evaluates   *)
PreQueue ==
    IF recLast' = "openCleanup"
    THEN Append(videoQueue, [path |-> currentSegment, timestamp |-> now])
    ELSE videoQueue

CleanupStep == recLast' \in {"openCleanup", "tickCleanup", "drainCleanup"}

(* entries of PreQueue that the evaluation removed *)
Removed == Len(PreQueue) - Len(videoQueue')

Aged(e) == (now - e.timestamp) > retentionPeriod

(* C16: handleBlinkDetected adds the current segment to the must-keep set   *)
(* when there is one and changes nothing when none has been opened; the     *)
(* segment that opens later is not marked by it: opening a segment leaves   *)
(* the must-keep set alone.                                                 *)
C16_MarkOnlyOpenSegment ==
    [][ /\ recLast' = "mark" =>
             /\ segmentsWithBlinks' =
                   IF currentSegment # NoSegment
                   THEN segmentsWithBlinks \cup {currentSegment}
                   ELSE segmentsWithBlinks
             /\ UNCHANGED <<videoQueue, currentSegment, files>>
        /\ recLast' \in {"open", "openCleanup"} =>
             /\ segmentsWithBlinks' = segmentsWithBlinks
             /\ currentSegment' \notin segmentsWithBlinks'
      ]_vars

(* a blink was signalled before any segment was opened, and the first       *)
(* segment has then opened unmarked                                         *)
C16_Witness ==
    /\ recLast = "open"
    /\ currentSegment = 1
    /\ segmentsWithBlinks = {}
    /\ edgeSegs = {}
    /\ bufferProcess = "running"

C18_AgedAndInOrder ==
    [][ /\ \A i, j \in 1..Len(videoQueue) :
              i < j => /\ videoQueue[i].timestamp <= videoQueue[j].timestamp
                       /\ videoQueue[i].path < videoQueue[j].path
        /\ CleanupStep =>
              /\ \A i \in 1..Len(PreQueue) :
                    (\A j \in 1..Len(videoQueue') : videoQueue'[j] # PreQueue[i])
                    => /\ now - PreQueue[i].timestamp > retentionPeriod
                       /\ \A k \in 1..(i-1) :
                             \A j \in 1..Len(videoQueue') : videoQueue'[j] # PreQueue[k]
              /\ \A f \in files \ files' :
                    \E i \in 1..Len(PreQueue) :
                       /\ f = RawName(PreQueue[i].path)
                       /\ now - PreQueue[i].timestamp > retentionPeriod
                       /\ \A j \in 1..Len(videoQueue') : videoQueue'[j] # PreQueue[i]
      ]_vars

(* a cleanup has just deleted the oldest segment, past its retention        *)
(* period, while a segment enqueued later is still queued, with its file    *)
C18_Witness ==
    /\ CleanupRan
    /\ Len(videoQueue) > 0
    /\ RawName(videoQueue[1].path) \in files
    /\ \E s \in Targets :
          /\ Closed(s)
          /\ s < videoQueue[1].path
          /\ s \notin segmentsWithBlinks
          /\ RawName(s) \notin files
          /\ now - enqueuedAt[s] > retentionPeriod

(* C19: while the recorder runs, right after a cleanup evaluation an        *)
(* unmarked segment that was enqueued at t = 0 has been deleted if and only *)
(* if the evaluation ran at t >= 60 s (retentionPeriod), t = 60 s included. *)
C19_DeletedFromSixty ==
    (recLast \in {"openCleanup", "tickCleanup"} /\ stopPc \in {"idle", "awaitExit"})
    => \A s \in Targets :
          (enqueuedAt[s] = 0 /\ s \notin segmentsWithBlinks)
          => (RawName(s) \notin files <=> now >= retentionPeriod)

(* C20: once stopRecording() has returned, the must-keep set and the        *)
(* retention queue are empty.                                               *)
C20_StopClearsRun ==
    stopPc = "done" => segmentsWithBlinks = {} /\ videoQueue = <<>>

(* C21: stopRecording() returns: while it waits for the encoder's exit      *)
(* event, the encoder is still running, so that the event is still to come  *)
(* (by the quit command or the kill after 2000 ms).                         *)
C21_StopAwaitsLiveEncoder ==
    stopPc = "awaitExit" => bufferProcess = "running"

(* C26: once the encoder has exited on its own, handleBlinkDetected()       *)
(* leaves the must-keep set as it is.                                       *)
C26_NoMarkAfterEncoderExit ==
    [][ (bufferProcess = "exited" /\ recLast' = "mark")
        => segmentsWithBlinks' = segmentsWithBlinks
      ]_vars

(* C31: while the recorder is active (started, encoder running, stop not    *)
(* requested) a segment is current and every other announced segment is     *)
(* closed.                                                                  *)
C31_ExactlyOneCurrent ==
    (bufferProcess = "running" /\ stopPc = "idle") =>
       /\ currentSegment # NoSegment
       /\ \A n \in 1..nextTarget : n # currentSegment => enqueuedAt[n] >= 0

(* q is p with entries taken off its front *)
IsSuffix(q, p) ==
    /\ Len(q) <= Len(p)
    /\ q = SubSeq(p, Len(p) - Len(q) + 1, Len(p))

(* C33: a segment-open signal for target X makes X current and leaves the   *)
(* must-keep set alone; a segment that was current is at the tail of the    *)
(* queue afterwards, stamped with the time of the signal, behind what was   *)
(* queued before; with none current the queue is unchanged.                 *)
C33_SegmentOpenEffect ==
    [][ recLast' \in {"open", "openCleanup"} =>
          /\ nextTarget' = nextTarget + 1
          /\ currentSegment' = nextTarget'
          /\ segmentsWithBlinks' = segmentsWithBlinks
          /\ (recLast' = "openCleanup") <=> (currentSegment # NoSegment)
          /\ currentSegment # NoSegment =>
                LET entry == [path |-> currentSegment, timestamp |-> now]
                IN  /\ Len(videoQueue') >= 1
                    /\ videoQueue'[Len(videoQueue')] = entry
                    /\ IsSuffix(videoQueue', Append(videoQueue, entry))
          /\ currentSegment = NoSegment => videoQueue' = videoQueue
      ]_vars

(* target 3 has just been announced at t = 30 s: segment 2 is at the tail   *)
(* of the queue with that stamp, behind segment 1                           *)
C33_Witness ==
    /\ recLast = "openCleanup"
    /\ currentSegment = 3
    /\ now = 2 * cleanupPeriod
    /\ Len(videoQueue) = 2
    /\ videoQueue[1].path = 1
    /\ videoQueue[2] = [path |-> 2, timestamp |-> now]

(* C35: a segment that has been pushed onto the retention queue neither     *)
(* enters nor leaves the must-keep set afterwards, and nothing leaves the   *)
(* set.                                                                     *)
C35_MustKeepFinalOnceClosed ==
    [][ /\ segmentsWithBlinks \subseteq segmentsWithBlinks'
        /\ \A n \in Targets :
              enqueuedAt[n] >= 0 =>
                 ((n \in segmentsWithBlinks') <=> (n \in segmentsWithBlinks))
      ]_vars

(* handleBlinkDetected() has just marked segment 2 with segment 1 closed    *)
(* unmarked: segment 1 stays unmarked                                       *)
C35_Witness ==
    /\ recLast = "mark"
    /\ enqueuedAt[1] >= 0
    /\ currentSegment = 2
    /\ segmentsWithBlinks = {2}

(* C36: the current segment is not in the retention queue, no segment is    *)
(* in it twice, and its timestamps do not decrease from front to back.      *)
C36_QueueWellFormed ==
    /\ \A k \in 1..Len(videoQueue) : videoQueue[k].path # currentSegment
    /\ \A j, k \in 1..Len(videoQueue) :
          j < k => /\ videoQueue[j].path # videoQueue[k].path
                   /\ videoQueue[j].timestamp <= videoQueue[k].timestamp

(* two closed segments queued at different times behind the current one *)
C36_Witness ==
    /\ Len(videoQueue) = 2
    /\ currentSegment = 3
    /\ videoQueue[1].timestamp < videoQueue[2].timestamp
    /\ videoQueue[1].path \in segmentsWithBlinks

(* C34: when stopRecording() has returned, every segment that was current   *)
(* at a handleBlinkDetected() call is in the directory under its 'blink_'   *)
(* name, whenever the call was made.                                        *)
C34_EveryEdgeRetained ==
    stopPc = "done" =>
       \A n \in edgeSegs : BlinkName(RawName(n)) \in files

=============================================================================
